---- MODULE Spec2Model ----
(***************************************************************************)
(* Sigma protocol demonstrator (sigma_protocol/src): the modular           *)
(* arithmetic kernel of math.rs as operators, and the protocol run of      *)
(* main.rs (start_proof, AppState::get_challenge, send_proof) as a state   *)
(* machine whose steps are the code segments between two pacing sleeps.    *)
(***************************************************************************)
EXTENDS Integers, Sequences, FiniteSets, TLC

VARIABLES
    pc,          \* position of the run task
    secret_key,  \* start_proof: secret_key (Key)
    keyt,        \* start_proof: keyt (Key)
    keyz,        \* start_proof: keyz, send_proof: key
    u,           \* start_proof / send_proof: u
    ut,          \* start_proof / send_proof: ut
    c,           \* start_proof / send_proof: c
    uz,          \* send_proof: uz
    uc,          \* send_proof: uc
    utuc,        \* send_proof: utuc
    log,         \* the messages handed to tx.send, in order
    fn,          \* kernel function applied to args ("" before the call)
    args,        \* arguments of a kernel call
    ret,         \* value returned by the kernel call
    rng,         \* the values the random source yields in the executions studied
    handler,     \* position of the start_handler request
    buffer,      \* broadcast channel: the values retained, oldest first
    tail_pos,    \* broadcast channel: number of values stored so far
    rx,          \* rx[r]: position of the next value of receiver r, Unset without receiver
    out,         \* out[r]: the SSE events logs_handler has yielded to client r
    dropped,     \* positions in log of the messages whose tx.send returned Err
    run2         \* the task of a second POST /start: its position and its draws

vars == <<pc, secret_key, keyt, keyz, u, ut, c, uz, uc, utuc, log, fn, args, ret,
          rng, handler, buffer, tail_pos, rx, out, dropped, run2>>

run_vars == <<pc, secret_key, keyt, keyz, u, ut, c, uz, uc, utuc, log>>

call_vars == <<fn, args, ret>>

\* What a tx.send changes.
tx_vars == <<log, buffer, tail_pos, dropped>>

\* What the run leaves alone besides the kernel call.
obs_vars == <<rng, handler, rx, out, run2>>

server_vars == <<rng, handler, buffer, tail_pos, rx, out, dropped, run2>>

(***************************************************************************)
(* Program constants (main.rs).                                            *)
(***************************************************************************)
Q == 11
G == 2
H == 3
C == 4
Capacity == 100
K1 == 5
K2 == 2
T1 == 3
T2 == 7

(***************************************************************************)
(* Bounds of the kernel's inputs.                                          *)
(***************************************************************************)
MaxBase == 12
MaxExp == 5
MaxMod == 9
MaxA == 36
MaxM == 18
MaxN == 31
MaxRounds == 2
MaxReceivers == 1
MaxDraw == 0
MaxOver == 2

(***************************************************************************)
(* Option<T>, and the panic of an arithmetic fault.                        *)
(***************************************************************************)
None == <<"None">>
Some(v) == <<"Some", v>>
Panic == <<"Panic">>
is_some(o) == o[1] = "Some"
is_none(o) == o = None
unwrap(o) == o[2]

(***************************************************************************)
(* math.rs                                                                 *)
(***************************************************************************)
RECURSIVE gcd_big(_, _)
\* Mutant: the base case returns the wrong argument.
gcd_big_returns_b(a, b) ==
    IF b = 0 THEN b ELSE gcd_big(b, a % b)

gcd_big(a, b) ==
    IF b = 0 THEN a ELSE gcd_big(b, a % b)

RECURSIVE mod_pow_loop(_, _, _, _)
\* Mutant: the base is squared before the multiplication of an odd step.
mod_pow_loop_square_first(result, base, exponent, modulus) ==
    IF exponent = 0
    THEN result
    ELSE mod_pow_loop(IF exponent % 2 = 1
                      THEN (result * ((base * base) % modulus)) % modulus
                      ELSE result,
                      (base * base) % modulus,
                      exponent \div 2,
                      modulus)

mod_pow_loop(result, base, exponent, modulus) ==
    IF exponent = 0
    THEN result
    ELSE mod_pow_loop(IF exponent % 2 = 1 THEN (result * base) % modulus ELSE result,
                      (base * base) % modulus,
                      exponent \div 2,
                      modulus)

mod_pow_positive_big(base, exponent, modulus) ==
    IF modulus = 1
    THEN 0
    ELSE mod_pow_loop(1, base % modulus, exponent, modulus)

\* BigInt division and remainder truncate toward zero.
trunc_div(x, y) ==
    IF (x >= 0) = (y >= 0)
    THEN (IF x >= 0 THEN x ELSE -x) \div (IF y >= 0 THEN y ELSE -y)
    ELSE -((IF x >= 0 THEN x ELSE -x) \div (IF y >= 0 THEN y ELSE -y))

trunc_rem(x, y) ==
    IF x >= 0
    THEN x % (IF y >= 0 THEN y ELSE -y)
    ELSE -((-x) % (IF y >= 0 THEN y ELSE -y))

RECURSIVE extended_euclidean(_, _)
\* Mutant: the quotient term is added instead of subtracted.
extended_euclidean_sign(a, b) ==
    IF a = 0
    THEN <<b, 0, 1>>
    ELSE LET r == extended_euclidean(trunc_rem(b, a), a)
         IN  <<r[1], r[3] + trunc_div(b, a) * r[2], r[2]>>

\* Mutant: the Bezout coefficients are returned in the wrong order.
extended_euclidean_swapped(a, b) ==
    IF a = 0
    THEN <<b, 0, 1>>
    ELSE LET r == extended_euclidean(trunc_rem(b, a), a)
         IN  <<r[1], r[2], r[3] - trunc_div(b, a) * r[2]>>

\* (gcd, x, y) as the tuple <<gcd, x, y>>.
extended_euclidean(a, b) ==
    IF a = 0
    THEN <<b, 0, 1>>
    ELSE LET r == extended_euclidean(trunc_rem(b, a), a)
             gcd == r[1]
             x1 == r[2]
             y1 == r[3]
         IN  <<gcd, y1 - trunc_div(b, a) * x1, x1>>

\* BigInt::to_biguint: none for a negative value.
to_biguint(x) == IF x < 0 THEN None ELSE Some(x)

\* Mutant: a negative remainder is not brought back into [0, m).
inverse_result_no_fixup(x, m) ==
    to_biguint(trunc_rem(x, m))

\* modular_inverse_euclidean, lines 79-84.
inverse_result(x, m) ==
    LET result == trunc_rem(x, m)
    IN  to_biguint(IF result < 0 THEN result + m ELSE result)

\* Mutant: the gcd is not checked.
modular_inverse_euclidean_no_gcd(a, m) ==
    IF a = 0 THEN None
    ELSE IF m = 1 THEN None
    ELSE IF m = 0 THEN Panic
    ELSE inverse_result(extended_euclidean(a, m)[2], m)

modular_inverse_euclidean(a, m) ==
    IF a = 0 THEN None
    ELSE IF m = 1 THEN None
    ELSE LET r == extended_euclidean(a, m)
         IN  IF r[1] # 1 THEN None
             ELSE IF m = 0 THEN Panic          \* x % &m divides by zero
             ELSE inverse_result(r[2], m)

\* Mutant: the inverse of a negative exponent is taken before the modulus = 1 check.
mod_pow_big_inverse_first(base, exponent, modulus) ==
    IF modulus = 0 THEN None
    ELSE IF exponent < 0
         THEN LET inv_base == modular_inverse_euclidean(base, modulus)
              IN  IF is_some(inv_base)
                  THEN Some(mod_pow_positive_big(unwrap(inv_base), -exponent, modulus))
                  ELSE None
         ELSE Some(mod_pow_positive_big(base, exponent, modulus))

\* A power that has no value for the exponent 0.
mod_pow_big_zero_exponent_none(base, exponent, modulus) ==
    IF modulus = 0 \/ exponent = 0 THEN None
    ELSE IF modulus = 1 THEN Some(0)
    ELSE IF exponent < 0
         THEN LET inv_base == modular_inverse_euclidean(base, modulus)
              IN  IF is_some(inv_base)
                  THEN Some(mod_pow_positive_big(unwrap(inv_base), -exponent, modulus))
                  ELSE None
         ELSE Some(mod_pow_positive_big(base, exponent, modulus))

mod_pow_big(base, exponent, modulus) ==
    IF modulus = 0 THEN None
    ELSE IF modulus = 1 THEN Some(0)
    ELSE IF exponent < 0
         THEN LET inv_base == modular_inverse_euclidean(base, modulus)
              IN  IF is_some(inv_base)
                  THEN Some(mod_pow_positive_big(unwrap(inv_base), -exponent, modulus))
                  ELSE None
         ELSE Some(mod_pow_positive_big(base, exponent, modulus))

(***************************************************************************)
(* key_gen.rs: is_prime_miller_rabin(n, k). The witnesses the function     *)
(* draws are its third argument: ws[i] is the draw of round i.             *)
(***************************************************************************)
\* rng.gen_biguint_range(lbound, ubound): a value of [lbound, ubound).
gen_biguint_range(lbound, ubound) == lbound .. (ubound - 1)

\* lines 63-68: n - 1 = 2^s * t, as <<t, s>>.
RECURSIVE mr_split(_, _)
mr_split(t, s) ==
    IF t % 2 = 0 THEN mr_split(t \div 2, s + 1) ELSE <<t, s>>

RECURSIVE mr_squarings(_, _, _)
\* Mutant: reaching n - 1 does not end the round.
mr_squarings_no_minus_one(x, left, n) ==
    IF left = 0
    THEN FALSE
    ELSE LET r == mod_pow_big(x, 2, n)
         IN  IF ~is_some(r) THEN TRUE
             ELSE IF unwrap(r) = 1 THEN FALSE
             ELSE mr_squarings(unwrap(r), left - 1, n)

\* lines 85-100: TRUE for "continue 'A", FALSE for "return false".
mr_squarings(x, left, n) ==
    IF left = 0
    THEN FALSE
    ELSE LET r == mod_pow_big(x, 2, n)
         IN  IF ~is_some(r) THEN TRUE
             ELSE IF unwrap(r) = 1 THEN FALSE
             ELSE IF unwrap(r) = n - 1 THEN TRUE
             ELSE mr_squarings(unwrap(r), left - 1, n)

\* lines 71-100: one round with the witness a; TRUE when the round passes.
\* A round that does not accept a^t = 1.
mr_round_rejects_one(a, t, s, n) ==
    LET r == mod_pow_big(a, t, n)
    IN  IF ~is_some(r) THEN TRUE
        ELSE IF unwrap(r) = n - 1 THEN TRUE
        ELSE mr_squarings(unwrap(r), s - 1, n)

mr_round(a, t, s, n) ==
    LET r == mod_pow_big(a, t, n)
    IN  IF ~is_some(r) THEN TRUE
        ELSE IF unwrap(r) = 1 \/ unwrap(r) = n - 1 THEN TRUE
        ELSE mr_squarings(unwrap(r), s - 1, n)

\* The draws of a call: none before the loop is reached.
mr_draws(n, k) ==
    IF n <= 3 \/ n % 2 = 0
    THEN {<<>>}
    ELSE [1 .. k -> gen_biguint_range(2, n - 2)]

is_prime_miller_rabin(n, k, ws) ==
    IF n <= 1 THEN FALSE
    ELSE IF n = 2 \/ n = 3 THEN TRUE
    ELSE IF n % 2 = 0 THEN FALSE
    ELSE LET ts == mr_split(n - 1, 0)
         IN  \A i \in 1 .. k : mr_round(ws[i], ts[1], ts[2], n)

(***************************************************************************)
(* main.rs: Key, compute_u, the random draw.                               *)
(***************************************************************************)
Key(alpha, beta) == [alpha |-> alpha, beta |-> beta]

\* key_gen::random_biguint_mod(&q): a value of [0, q).
random_biguint_mod(q) == 0 .. (q - 1)

\* compute_u, line 129: Option::unwrap panics on none.
compute_u_panics(key, g, h, q) ==
    \/ ~is_some(mod_pow_big(g, key.alpha, q))
    \/ ~is_some(mod_pow_big(h, key.beta, q))

\* Mutant: the product is not reduced modulo q.
compute_u_no_mod(key, g, h, q) ==
    unwrap(mod_pow_big(g, key.alpha, q)) * unwrap(mod_pow_big(h, key.beta, q))

compute_u(key, g, h, q) ==
    (unwrap(mod_pow_big(g, key.alpha, q)) * unwrap(mod_pow_big(h, key.beta, q))) % q

\* Mutant: the response is not reduced modulo q.
respond_no_mod(sk, kt, ch, q) ==
    Key(kt.alpha + sk.alpha * ch, kt.beta + sk.beta * ch)

\* A response whose second component is not reduced modulo q.
respond_unreduced_beta(sk, kt, ch, q) ==
    Key((kt.alpha + sk.alpha * ch) % q, kt.beta + sk.beta * ch)

\* start_proof, lines 250-253: the response witness.
respond(sk, kt, ch, q) ==
    Key((kt.alpha + sk.alpha * ch) % q, (kt.beta + sk.beta * ch) % q)

Unset == -1
NoKey == Key(Unset, Unset)
NoArgs == <<>>

\* A task that has not been spawned.
NoRun == [pc |-> "idle", secret_key |-> NoKey, keyt |-> NoKey]

(***************************************************************************)
(* The broadcast channel of AppState::new (tokio::sync::broadcast).        *)
(***************************************************************************)
Subscribers == 1 .. MaxReceivers

\* usize::next_power_of_two
RECURSIVE power_of_two_from(_, _)
power_of_two_from(p, n) == IF p >= n THEN p ELSE power_of_two_from(2 * p, n)

next_power_of_two(n) == power_of_two_from(1, n)

\* broadcast::channel(100): the buffer gets the capacity rounded up to a power of two.
buffer_len == next_power_of_two(Capacity)

\* tx.receiver_count()
receiver_count == Cardinality({r \in Subscribers : rx[r] # Unset})

\* Position of the oldest value the buffer retains.
oldest_pos == tail_pos - Len(buffer)

\* The buffer after one more value: a full buffer loses its oldest value.
store(buf, msg) ==
    IF Len(buf) < buffer_len THEN Append(buf, msg) ELSE Append(Tail(buf), msg)

\* A send that stores the value whether or not a receiver exists.
tx_send_always_stores(msg) ==
    /\ log' = Append(log, msg)
    /\ buffer' = store(buffer, msg)
    /\ tail_pos' = tail_pos + 1
    /\ UNCHANGED dropped

\* A send that waits until there is a receiver.
tx_send_waits_for_receiver(msg) ==
    /\ receiver_count >= 1
    /\ log' = Append(log, msg)
    /\ buffer' = store(buffer, msg)
    /\ tail_pos' = tail_pos + 1
    /\ UNCHANGED dropped

\* let _ = tx.send(format!(...)): Err(SendError) without receiver, the value is
\* not stored and the caller goes on; otherwise the value is stored for every receiver.
tx_send(msg) ==
    /\ log' = Append(log, msg)
    /\ IF receiver_count = 0
       THEN /\ dropped' = dropped \cup {Len(log) + 1}
            /\ UNCHANGED <<buffer, tail_pos>>
       ELSE /\ buffer' = store(buffer, msg)
            /\ tail_pos' = tail_pos + 1
            /\ UNCHANGED dropped

\* A channel nobody has subscribed to.
FreshChannel ==
    /\ buffer = <<>>
    /\ tail_pos = 0
    /\ rx = [r \in Subscribers |-> Unset]
    /\ out = [r \in Subscribers |-> <<>>]
    /\ dropped = {}

\* The channel when start_handler has seen one receiver and spawned the run.
OneReceiver ==
    /\ buffer = <<>>
    /\ tail_pos = 0
    /\ rx = [r \in Subscribers |-> IF r = 1 THEN 0 ELSE Unset]
    /\ out = [r \in Subscribers |-> <<>>]
    /\ dropped = {}

(***************************************************************************)
(* The protocol run.                                                       *)
(***************************************************************************)
Init ==
    /\ pc = "start_proof"
    /\ secret_key = NoKey
    /\ keyt = NoKey
    /\ keyz = NoKey
    /\ u = Unset
    /\ ut = Unset
    /\ c = Unset
    /\ uz = Unset
    /\ uc = Unset
    /\ utuc = Unset
    /\ log = <<>>
    /\ fn = ""
    /\ args = NoArgs
    /\ ret = None
    /\ rng = random_biguint_mod(Q)
    /\ handler = "accepted"
    /\ OneReceiver
    /\ run2 = NoRun

\* start_proof, lines 191-214: secret witness, u, the rules message.
StartProofSecret ==
    /\ pc = "start_proof"
    /\ \E alpha \in random_biguint_mod(Q) \cap rng, beta \in random_biguint_mod(Q) \cap rng :
          /\ secret_key' = Key(alpha, beta)
          /\ IF compute_u_panics(Key(alpha, beta), G, H, Q)
             THEN /\ pc' = "panicked"
                  /\ UNCHANGED <<u, tx_vars>>
             ELSE /\ u' = compute_u(Key(alpha, beta), G, H, Q)
                  /\ tx_send(<<"rules", Q, G, H>>)
                  /\ pc' = "blind"
    /\ UNCHANGED <<keyt, keyz, ut, c, uz, uc, utuc, call_vars, obs_vars>>

\* start_proof, lines 216-229: blinding witness, u_t, the commitments message.
StartProofBlind ==
    /\ pc = "blind"
    /\ \E alpha \in random_biguint_mod(Q) \cap rng, beta \in random_biguint_mod(Q) \cap rng :
          /\ keyt' = Key(alpha, beta)
          /\ IF compute_u_panics(Key(alpha, beta), G, H, Q)
             THEN /\ pc' = "panicked"
                  /\ UNCHANGED <<ut, tx_vars>>
             ELSE /\ ut' = compute_u(Key(alpha, beta), G, H, Q)
                  /\ tx_send(<<"commitments", u, ut'>>)
                  /\ pc' = "reveal_secret"
    /\ UNCHANGED <<secret_key, keyz, u, c, uz, uc, utuc, call_vars, obs_vars>>

\* start_proof, lines 230-236.
StartProofRevealSecret ==
    /\ pc = "reveal_secret"
    /\ tx_send(<<"secret_key", secret_key.alpha, secret_key.beta>>)
    /\ pc' = "reveal_keyt"
    /\ UNCHANGED <<secret_key, keyt, keyz, u, ut, c, uz, uc, utuc, call_vars, obs_vars>>

\* start_proof that goes from the blinding key straight to the response.
StartProofRevealKeyt_skips_challenge ==
    /\ pc = "reveal_keyt"
    /\ tx_send(<<"keyt", keyt.alpha, keyt.beta>>)
    /\ pc' = "respond"
    /\ UNCHANGED <<secret_key, keyt, keyz, u, ut, c, uz, uc, utuc, call_vars, obs_vars>>

\* start_proof, lines 237-243.
StartProofRevealKeyt ==
    /\ pc = "reveal_keyt"
    /\ tx_send(<<"keyt", keyt.alpha, keyt.beta>>)
    /\ pc' = "get_challenge"
    /\ UNCHANGED <<secret_key, keyt, keyz, u, ut, c, uz, uc, utuc, call_vars, obs_vars>>

\* AppState::get_challenge.
GetChallenge ==
    /\ pc = "get_challenge"
    /\ c' = C
    /\ tx_send(<<"challenge", C>>)
    /\ pc' = "respond"
    /\ UNCHANGED <<secret_key, keyt, keyz, u, ut, uz, uc, utuc, call_vars, obs_vars>>

\* start_proof, lines 250-263: the response, its message, then send_proof.
StartProofRespond ==
    /\ pc = "respond"
    /\ keyz' = respond(secret_key, keyt, c, Q)
    /\ tx_send(<<"response", keyz'.alpha, keyz'.beta>>)
    /\ pc' = "send_proof"
    /\ UNCHANGED <<secret_key, keyt, u, ut, c, uz, uc, utuc, call_vars, obs_vars>>

\* send_proof, lines 275-280.
SendProofUz ==
    /\ pc = "send_proof"
    /\ IF compute_u_panics(keyz, G, H, Q)
       THEN /\ pc' = "panicked"
            /\ UNCHANGED <<uz, tx_vars>>
       ELSE /\ uz' = compute_u(keyz, G, H, Q)
            /\ tx_send(<<"uz", uz'>>)
            /\ pc' = "uc"
    /\ UNCHANGED <<secret_key, keyt, keyz, u, ut, c, uc, utuc, call_vars, obs_vars>>

\* send_proof, lines 282-294: u^c, or the failure message and return.
SendProofUc ==
    /\ pc = "uc"
    /\ LET r == mod_pow_big(u, c, Q)
       IN  IF is_some(r)
           THEN /\ uc' = unwrap(r)
                /\ tx_send(<<"uc", unwrap(r)>>)
                /\ pc' = "utuc"
           ELSE /\ uc' = uc
                /\ tx_send(<<"failed">>)
                /\ pc' = "done"
    /\ UNCHANGED <<secret_key, keyt, keyz, u, ut, c, uz, utuc, call_vars, obs_vars>>

\* Mutant: u_t * u^c is not reduced modulo q.
SendProofUtuc_no_mod ==
    /\ pc = "utuc"
    /\ utuc' = ut * uc
    /\ tx_send(<<"utuc", utuc'>>)
    /\ pc' = "verdict"
    /\ UNCHANGED <<secret_key, keyt, keyz, u, ut, c, uz, uc, call_vars, obs_vars>>

\* send_proof, lines 296-302.
SendProofUtuc ==
    /\ pc = "utuc"
    /\ utuc' = (ut * uc) % Q
    /\ tx_send(<<"utuc", utuc'>>)
    /\ pc' = "verdict"
    /\ UNCHANGED <<secret_key, keyt, keyz, u, ut, c, uz, uc, call_vars, obs_vars>>

\* Mutant: the two verdict messages are exchanged.
SendProofVerdict_swapped ==
    /\ pc = "verdict"
    /\ tx_send(IF uz = utuc THEN <<"rejected", uz, utuc>>
                                ELSE <<"verified", uz, utuc>>)
    /\ pc' = "done"
    /\ UNCHANGED <<secret_key, keyt, keyz, u, ut, c, uz, uc, utuc, call_vars, obs_vars>>

\* send_proof, lines 304-320.
SendProofVerdict ==
    /\ pc = "verdict"
    /\ tx_send(IF uz = utuc THEN <<"verified", uz, utuc>>
                                ELSE <<"rejected", uz, utuc>>)
    /\ pc' = "done"
    /\ UNCHANGED <<secret_key, keyt, keyz, u, ut, c, uz, uc, utuc, call_vars, obs_vars>>

send_proof ==
    \/ SendProofUz
    \/ SendProofUc
    \/ SendProofUtuc
    \/ SendProofVerdict

Next ==
    \/ StartProofSecret
    \/ StartProofBlind
    \/ StartProofRevealSecret
    \/ StartProofRevealKeyt
    \/ GetChallenge
    \/ StartProofRespond
    \/ send_proof

Spec == Init /\ [][Next]_vars

\* The terminal message of a finished run.
Verdict == IF pc = "done" THEN log[Len(log)][1] ELSE "none"

(***************************************************************************)
(* send_proof applied to an arbitrary response: key, u, ut and c are its   *)
(* parameters, drawn from the values a run can hand over.                  *)
(***************************************************************************)
Keys == [alpha : random_biguint_mod(Q), beta : random_biguint_mod(Q)]

Commitments == {compute_u(k, G, H, Q) : k \in Keys}

InitVerify ==
    /\ pc = "send_proof"
    /\ secret_key = NoKey
    /\ keyt = NoKey
    /\ keyz \in Keys
    /\ u \in Commitments
    /\ ut \in Commitments
    /\ c \in random_biguint_mod(Q)
    /\ uz = Unset
    /\ uc = Unset
    /\ utuc = Unset
    /\ log = <<>>
    /\ fn = ""
    /\ args = NoArgs
    /\ ret = None
    /\ rng = random_biguint_mod(Q)
    /\ handler = "accepted"
    /\ OneReceiver
    /\ run2 = NoRun

SpecVerify == InitVerify /\ [][send_proof]_vars

(***************************************************************************)
(* The kernel functions applied to bounded inputs.                         *)
(***************************************************************************)
InitKernel ==
    /\ pc = "kernel"
    /\ secret_key = NoKey
    /\ keyt = NoKey
    /\ keyz = NoKey
    /\ u = Unset
    /\ ut = Unset
    /\ c = Unset
    /\ uz = Unset
    /\ uc = Unset
    /\ utuc = Unset
    /\ log = <<>>
    /\ fn = ""
    /\ ret = None
    /\ rng = {}
    /\ handler = "none"
    /\ FreshChannel
    /\ run2 = NoRun

InitModPow ==
    /\ InitKernel
    /\ args \in [base : 0 .. MaxBase, exponent : (-MaxExp) .. MaxExp, modulus : 0 .. MaxMod]

CallModPowBig ==
    /\ pc = "kernel"
    /\ fn = ""
    /\ "exponent" \in DOMAIN args
    /\ fn' = "mod_pow_big"
    /\ ret' = mod_pow_big(args.base, args.exponent, args.modulus)
    /\ UNCHANGED <<run_vars, args, server_vars>>

SpecModPow == InitModPow /\ [][CallModPowBig]_vars

InitInverse ==
    /\ InitKernel
    /\ args \in [a : 0 .. MaxA, m : 0 .. MaxM]

CallModularInverse ==
    /\ pc = "kernel"
    /\ fn = ""
    /\ "a" \in DOMAIN args
    /\ fn' = "modular_inverse_euclidean"
    /\ ret' = modular_inverse_euclidean(args.a, args.m)
    /\ UNCHANGED <<run_vars, args, server_vars>>

SpecInverse == InitInverse /\ [][CallModularInverse]_vars

InitGcd ==
    /\ InitKernel
    /\ args \in [a : 0 .. MaxA, b : 0 .. MaxM]

CallGcdBig ==
    /\ pc = "kernel"
    /\ fn = ""
    /\ "b" \in DOMAIN args
    /\ fn' = "gcd_big"
    /\ ret' = gcd_big(args.a, args.b)
    /\ UNCHANGED <<run_vars, args, server_vars>>

SpecGcd == InitGcd /\ [][CallGcdBig]_vars

InitMillerRabin ==
    /\ InitKernel
    /\ args \in [n : 0 .. MaxN, k : 0 .. MaxRounds]

CallMillerRabin ==
    /\ pc = "kernel"
    /\ fn = ""
    /\ "k" \in DOMAIN args
    /\ fn' = "is_prime_miller_rabin"
    /\ \E ws \in mr_draws(args.n, args.k) :
          /\ args' = [n |-> args.n, k |-> args.k, ws |-> ws]
          /\ ret' = is_prime_miller_rabin(args.n, args.k, ws)
    /\ UNCHANGED <<run_vars, server_vars>>

SpecMillerRabin == InitMillerRabin /\ [][CallMillerRabin]_vars

(***************************************************************************)
(* The server: POST /start (start_handler), GET /logs (logs_handler), the  *)
(* clients of the event stream and the run start_handler spawns.           *)
(***************************************************************************)
\* A POST /start request reaches start_handler.
StartRequest ==
    /\ pc = "idle"
    /\ handler = "none"
    /\ handler' = "poll"
    /\ UNCHANGED <<run_vars, call_vars, rng, buffer, tail_pos, rx, out, dropped, run2>>

\* The barrier that spawns whatever receiver_count says.
StartHandlerPoll_no_barrier ==
    /\ handler = "poll"
    /\ handler' = "accepted"
    /\ pc' = "start_proof"
    /\ UNCHANGED <<secret_key, keyt, keyz, u, ut, c, uz, uc, utuc, log>>
    /\ UNCHANGED <<call_vars, rng, buffer, tail_pos, rx, out, dropped, run2>>

\* while tx.receiver_count() == 0 { warn; sleep(500ms).await }
\* tokio::spawn(start_proof(state)); StatusCode::ACCEPTED
\* Every request that passes the barrier spawns a task of its own: the first
\* request the run of pc, a later one the task run2.
StartHandlerPoll ==
    /\ handler = "poll"
    /\ IF receiver_count = 0
       THEN /\ handler' = "sleep"
            /\ UNCHANGED <<pc, run2>>
       ELSE /\ handler' = "accepted"
            /\ IF pc = "idle"
               THEN /\ pc' = "start_proof"
                    /\ run2' = run2
               ELSE /\ pc' = pc
                    /\ run2' = [run2 EXCEPT !.pc = "start_proof"]
    /\ UNCHANGED <<secret_key, keyt, keyz, u, ut, c, uz, uc, utuc, log>>
    /\ UNCHANGED <<call_vars, rng, buffer, tail_pos, rx, out, dropped>>

\* The 500 ms sleep of the barrier ends.
StartHandlerWake ==
    /\ handler = "sleep"
    /\ handler' = "poll"
    /\ UNCHANGED <<run_vars, call_vars, rng, buffer, tail_pos, rx, out, dropped, run2>>

\* A subscription that replays what the buffer retains.
logs_handler_from_oldest(r) ==
    /\ rx[r] = Unset
    /\ rx' = [rx EXCEPT ![r] = oldest_pos]
    /\ out' = [out EXCEPT ![r] = <<>>]
    /\ UNCHANGED <<run_vars, call_vars, rng, handler, buffer, tail_pos, dropped, run2>>

\* GET /logs: BroadcastStream::new(state.tx.subscribe()); the new receiver
\* starts at the tail of the channel.
logs_handler(r) ==
    /\ rx[r] = Unset
    /\ rx' = [rx EXCEPT ![r] = tail_pos]
    /\ out' = [out EXCEPT ![r] = <<>>]
    /\ UNCHANGED <<run_vars, call_vars, rng, handler, buffer, tail_pos, dropped, run2>>

\* The client of stream r goes away: the stream and its receiver are dropped.
Disconnect(r) ==
    /\ rx[r] # Unset
    /\ rx' = [rx EXCEPT ![r] = Unset]
    /\ out' = [out EXCEPT ![r] = <<>>]
    /\ UNCHANGED <<run_vars, call_vars, rng, handler, buffer, tail_pos, dropped, run2>>

\* The value stored at position p of the channel.
value_at(p) == buffer[p - oldest_pos + 1]

\* A lagged receiver that resumes at the tail.
Recv_skip_to_tail(r) ==
    /\ rx[r] # Unset
    /\ rx[r] < tail_pos
    /\ IF rx[r] < oldest_pos
       THEN /\ out' = [out EXCEPT ![r] = Append(@, <<"lagged", oldest_pos - rx[r]>>)]
            /\ rx' = [rx EXCEPT ![r] = tail_pos]
       ELSE /\ out' = [out EXCEPT ![r] = Append(@, <<"data", value_at(rx[r])>>)]
            /\ rx' = [rx EXCEPT ![r] = @ + 1]
    /\ UNCHANGED <<run_vars, call_vars, rng, handler, buffer, tail_pos, dropped, run2>>

\* The stream of logs_handler yields its next item: Ok(msg) becomes a data
\* event, Err(Lagged(skipped)) a notice carrying the count, after which the
\* receiver stands at the oldest value retained.
Recv(r) ==
    /\ rx[r] # Unset
    /\ rx[r] < tail_pos
    /\ IF rx[r] < oldest_pos
       THEN /\ out' = [out EXCEPT ![r] = Append(@, <<"lagged", oldest_pos - rx[r]>>)]
            /\ rx' = [rx EXCEPT ![r] = oldest_pos]
       ELSE /\ out' = [out EXCEPT ![r] = Append(@, <<"data", value_at(rx[r])>>)]
            /\ rx' = [rx EXCEPT ![r] = @ + 1]
    /\ UNCHANGED <<run_vars, call_vars, rng, handler, buffer, tail_pos, dropped, run2>>

InitServer ==
    /\ pc = "idle"
    /\ secret_key = NoKey
    /\ keyt = NoKey
    /\ keyz = NoKey
    /\ u = Unset
    /\ ut = Unset
    /\ c = Unset
    /\ uz = Unset
    /\ uc = Unset
    /\ utuc = Unset
    /\ log = <<>>
    /\ fn = ""
    /\ args = NoArgs
    /\ ret = None
    /\ rng = 0 .. MaxDraw
    /\ handler = "none"
    /\ FreshChannel
    /\ run2 = NoRun

NextServer ==
    \/ StartRequest
    \/ StartHandlerPoll
    \/ StartHandlerWake
    \/ \E r \in Subscribers : logs_handler(r)
    \/ \E r \in Subscribers : Disconnect(r)
    \/ \E r \in Subscribers : Recv(r)
    \/ Next

SpecServer == InitServer /\ [][NextServer]_vars

\* The producer's side of the server: the barrier, the run, and the streams
\* opening and closing (what a stream has read does not reach the producer).
NextProducer ==
    \/ StartRequest
    \/ StartHandlerPoll
    \/ StartHandlerWake
    \/ \E r \in Subscribers : logs_handler(r)
    \/ \E r \in Subscribers : Disconnect(r)
    \/ Next

\* The task start_handler spawned is scheduled by the runtime, and each of its
\* 500 ms sleeps ends: a step of the run that can be taken is taken.
SpecProducerLive == InitServer /\ [][NextProducer]_vars /\ WF_vars(Next)

(***************************************************************************)
(* Two POST /start requests: start_handler keeps no record of a run in     *)
(* progress, so the second request spawns a second start_proof task on the *)
(* same channel.                                                           *)
(***************************************************************************)
\* A further POST /start reaches start_handler after the first was accepted.
StartRequestAgain ==
    /\ handler = "accepted"
    /\ run2.pc = "idle"
    /\ handler' = "poll"
    /\ UNCHANGED <<run_vars, call_vars, rng, buffer, tail_pos, rx, out, dropped, run2>>

\* The stages of start_proof and send_proof, in the order of the code.
Stages ==
    <<"start_proof", "blind", "reveal_secret", "reveal_keyt", "get_challenge",
      "respond", "send_proof", "uc", "utuc", "verdict", "done">>

StageAfter(p) == Stages[(CHOOSE i \in DOMAIN Stages : Stages[i] = p) + 1]

\* The values a task computes from its draws (start_proof, send_proof).
ResponseOf(r) == respond(r.secret_key, r.keyt, C, Q)

UcOf(r) == mod_pow_big(compute_u(r.secret_key, G, H, Q), C, Q)

UtucOf(r) == (compute_u(r.keyt, G, H, Q) * unwrap(UcOf(r))) % Q

\* The key whose commitment the task computes at stage p.
KeyAt(p, r) ==
    IF p = "start_proof" THEN r.secret_key
    ELSE IF p = "blind" THEN r.keyt
    ELSE ResponseOf(r)

\* The message the task sends at stage p.
EventAt(p, r) ==
    CASE p = "start_proof" -> <<"rules", Q, G, H>>
      [] p = "blind" ->
            <<"commitments", compute_u(r.secret_key, G, H, Q), compute_u(r.keyt, G, H, Q)>>
      [] p = "reveal_secret" -> <<"secret_key", r.secret_key.alpha, r.secret_key.beta>>
      [] p = "reveal_keyt" -> <<"keyt", r.keyt.alpha, r.keyt.beta>>
      [] p = "get_challenge" -> <<"challenge", C>>
      [] p = "respond" -> <<"response", ResponseOf(r).alpha, ResponseOf(r).beta>>
      [] p = "send_proof" -> <<"uz", compute_u(ResponseOf(r), G, H, Q)>>
      [] p = "uc" -> IF is_some(UcOf(r)) THEN <<"uc", unwrap(UcOf(r))>> ELSE <<"failed">>
      [] p = "utuc" -> <<"utuc", UtucOf(r)>>
      [] p = "verdict" ->
            IF compute_u(ResponseOf(r), G, H, Q) = UtucOf(r)
            THEN <<"verified", compute_u(ResponseOf(r), G, H, Q), UtucOf(r)>>
            ELSE <<"rejected", compute_u(ResponseOf(r), G, H, Q), UtucOf(r)>>

\* One step of the second task: start_proof, get_challenge and send_proof
\* as in the first, the values held in run2.
SecondRunStep ==
    /\ run2.pc \notin {"idle", "done", "panicked"}
    /\ \E alpha \in random_biguint_mod(Q) \cap rng, beta \in random_biguint_mod(Q) \cap rng :
          LET p == run2.pc
              r == IF p = "start_proof" THEN [run2 EXCEPT !.secret_key = Key(alpha, beta)]
                   ELSE IF p = "blind" THEN [run2 EXCEPT !.keyt = Key(alpha, beta)]
                   ELSE run2
          IN  IF p \in {"start_proof", "blind", "send_proof"}
                 /\ compute_u_panics(KeyAt(p, r), G, H, Q)
              THEN /\ run2' = [r EXCEPT !.pc = "panicked"]
                   /\ UNCHANGED tx_vars
              ELSE /\ tx_send(EventAt(p, r))
                   /\ run2' = [r EXCEPT !.pc = IF p = "uc" /\ ~is_some(UcOf(r))
                                                THEN "done"
                                                ELSE StageAfter(p)]
    /\ UNCHANGED <<pc, secret_key, keyt, keyz, u, ut, c, uz, uc, utuc>>
    /\ UNCHANGED <<call_vars, rng, handler, rx, out>>

NextTwoRuns ==
    \/ StartRequest
    \/ StartRequestAgain
    \/ StartHandlerPoll
    \/ StartHandlerWake
    \/ \E r \in Subscribers : logs_handler(r)
    \/ Next
    \/ SecondRunStep

SpecTwoRuns == InitServer /\ [][NextTwoRuns]_vars

(***************************************************************************)
(* The channel under a burst: one receiver that stalls while the producer  *)
(* publishes past the length of the buffer.                                *)
(***************************************************************************)
\* One tx.send of the producer; the payload is the number of the event.
Publish ==
    /\ pc = "burst"
    /\ Len(log) < buffer_len + MaxOver
    /\ tx_send(<<"event", Len(log)>>)
    /\ UNCHANGED <<pc, secret_key, keyt, keyz, u, ut, c, uz, uc, utuc>>
    /\ UNCHANGED <<call_vars, obs_vars>>

InitLag ==
    /\ pc = "burst"
    /\ secret_key = NoKey
    /\ keyt = NoKey
    /\ keyz = NoKey
    /\ u = Unset
    /\ ut = Unset
    /\ c = Unset
    /\ uz = Unset
    /\ uc = Unset
    /\ utuc = Unset
    /\ log = <<>>
    /\ fn = ""
    /\ args = NoArgs
    /\ ret = None
    /\ rng = {}
    /\ handler = "none"
    /\ OneReceiver
    /\ run2 = NoRun

NextLag ==
    \/ Publish
    \/ \E r \in Subscribers : Recv(r)

SpecLag == InitLag /\ [][NextLag]_vars

(***************************************************************************)
(* Reference arithmetic the properties are stated against.                 *)
(***************************************************************************)
Divides(d, n) == \E k \in 0 .. n : n = d * k

\* The greatest common divisor by its definition; RefGcd(0, 0) = 0.
RefGcd(a, b) ==
    IF a = 0 /\ b = 0 THEN 0
    ELSE CHOOSE d \in 1 .. (a + b) :
            /\ Divides(d, a)
            /\ Divides(d, b)
            /\ \A e \in 1 .. (a + b) : (Divides(e, a) /\ Divides(e, b)) => e <= d

\* b^e mod m by e successive multiplications.
RECURSIVE RefPowMod(_, _, _)
RefPowMod(b, e, m) ==
    IF e = 0 THEN 1 % m ELSE (b * RefPowMod(b, e - 1, m)) % m

RefCommit(key) ==
    (RefPowMod(G, key.alpha, Q) * RefPowMod(H, key.beta, Q)) % Q

Done == pc = "done"

(***************************************************************************)
(* C1. Completeness: every run, whose response is the honest               *)
(* ((alpha_t + alpha*c) mod q, (beta_t + beta*c) mod q), ends with         *)
(* u_z = (u_t * u^c) mod q and the Verified verdict.                       *)
(***************************************************************************)
C1_Completeness ==
    Done => (keyz = respond(secret_key, keyt, c, Q) /\ uz = utuc /\ Verdict = "verified")

(***************************************************************************)
(* C2. Worked trace: secret (5,2), blinding (3,7), c = 4 give the response *)
(* (1,4), u_z = 8, expected = 4 and the Rejected verdict.                  *)
(***************************************************************************)
WorkedTrace == secret_key = Key(K1, K2) /\ keyt = Key(T1, T2) /\ c = C

C2_WorkedVerdict_Original ==
    (Done /\ WorkedTrace) =>
        (keyz = Key(1, 4) /\ uz = 8 /\ utuc = 4 /\ Verdict = "rejected")

\* C2 amended: the response is (1,4) and u_z = 8, but the expected value
\* (u_t * u^c) mod 11 is 8 as well, and the run ends with the Verified verdict.
C2_WorkedVerdict ==
    (Done /\ WorkedTrace) =>
        (keyz = Key(1, 4) /\ uz = 8 /\ utuc = 8 /\ Verdict = "verified")

C2_Witness == Done /\ WorkedTrace /\ log[Len(log)] = <<"verified", 8, 8>>

(***************************************************************************)
(* C3. Worked trace commitments: compute_u gives u = 2 for the secret      *)
(* witness (5,2) and u_t = 3 for the blinding witness (3,7).               *)
(***************************************************************************)
C3_WorkedCommitments_Original ==
    /\ (secret_key = Key(K1, K2) /\ u # Unset) => u = 2
    /\ (keyt = Key(T1, T2) /\ ut # Unset) => ut = 3

\* C3 amended: u = 2 and u_t = 6 (17496 mod 11 is 6).
C3_WorkedCommitments ==
    /\ (secret_key = Key(K1, K2) /\ u # Unset) => u = 2
    /\ (keyt = Key(T1, T2) /\ ut # Unset) => ut = 6

C3_Witness ==
    /\ secret_key = Key(K1, K2)
    /\ keyt = Key(T1, T2)
    /\ pc = "reveal_secret"
    /\ log[Len(log)] = <<"commitments", 2, 6>>

(***************************************************************************)
(* C4. Soundness: for fixed u, u_t and c, a response that is not the       *)
(* honest response of witnesses committed to by u and u_t is given the     *)
(* Rejected verdict by send_proof.                                         *)
(***************************************************************************)
Honest(sk, kt) ==
    /\ compute_u(sk, G, H, Q) = u
    /\ compute_u(kt, G, H, Q) = ut
    /\ keyz = respond(sk, kt, c, Q)

Committed(sk, kt) ==
    /\ compute_u(sk, G, H, Q) = u
    /\ compute_u(kt, G, H, Q) = ut

NotHonest ==
    /\ \E sk \in Keys, kt \in Keys : Committed(sk, kt)
    /\ \A sk \in Keys, kt \in Keys : ~Honest(sk, kt)

C4_Soundness_Original ==
    (Done /\ Verdict # "rejected") => ~NotHonest

\* C4 amended: send_proof gives the Rejected verdict exactly to the responses
\* whose commitment g^alpha_z * h^beta_z mod q differs from (u_t * u^c) mod q,
\* and the Verified verdict to every other response, honest or not.
C4_Soundness ==
    Done =>
        /\ Verdict \in {"verified", "rejected"}
        /\ (Verdict = "rejected") <=> (RefCommit(keyz) # (ut * RefPowMod(u, c, Q)) % Q)

C4_Witness ==
    /\ Done
    /\ Verdict = "rejected"
    /\ RefCommit(keyz) # (ut * RefPowMod(u, c, Q)) % Q
    /\ NotHonest

(***************************************************************************)
(* C5. modular_inverse_euclidean(a, m), a >= 0, m >= 1: Some(inv) exactly  *)
(* when gcd(a,m) = 1, a # 0 and m # 1, with inv in [0,m) and               *)
(* (a * inv) mod m = 1; none in every other case.                          *)
(***************************************************************************)
InverseCalled == fn = "modular_inverse_euclidean"

ModPowCalled == fn = "mod_pow_big"

C7_DegenerateModuli ==
    ModPowCalled =>
        /\ args.modulus = 0 => ret = None
        /\ args.modulus = 1 => ret = Some(0)

C7_Witness ==
    /\ ModPowCalled
    /\ args.modulus = 1
    /\ args.exponent < 0
    /\ args.base = 0
    /\ ret = Some(0)

(***************************************************************************)
(* C8. mod_pow_big with exponent e < 0 and modulus >= 2: none exactly when *)
(* gcd(base, modulus) # 1 (base = 0 included); otherwise Some(r) with      *)
(* r in [0, modulus), r = (base^-1)^|e| mod modulus and                    *)
(* r * base^|e| mod modulus = 1.                                           *)
(***************************************************************************)
C8_NegativeExponent ==
    (ModPowCalled /\ args.exponent < 0 /\ args.modulus >= 2) =>
        IF RefGcd(args.base, args.modulus) # 1
        THEN ret = None
        ELSE /\ is_some(ret)
             /\ unwrap(ret) \in 0 .. (args.modulus - 1)
             /\ \E inv \in 0 .. (args.modulus - 1) :
                   /\ (args.base * inv) % args.modulus = 1
                   /\ unwrap(ret) = RefPowMod(inv, -args.exponent, args.modulus)
             /\ (unwrap(ret) * RefPowMod(args.base, -args.exponent, args.modulus))
                    % args.modulus = 1

C8_Witness ==
    /\ ModPowCalled
    /\ args.exponent < -1
    /\ args.modulus >= 2
    /\ args.base > args.modulus
    /\ is_some(ret)
    /\ unwrap(ret) > 1

(***************************************************************************)
(* C9. mod_pow_big with exponent e >= 0 and modulus >= 2 returns           *)
(* Some(base^e mod modulus), in [0, modulus), for every base; e = 0 gives  *)
(* 1 even for base 0; pow(b, m+n) = pow(b,m) * pow(b,n) mod modulus.       *)
(***************************************************************************)
C9_PositiveExponent ==
    (ModPowCalled /\ args.exponent >= 0 /\ args.modulus >= 2) =>
        /\ is_some(ret)
        /\ unwrap(ret) \in 0 .. (args.modulus - 1)
        /\ unwrap(ret) = RefPowMod(args.base, args.exponent, args.modulus)
        /\ args.exponent = 0 => unwrap(ret) = 1
        /\ \A i \in 0 .. args.exponent :
              unwrap(ret) =
                  (unwrap(mod_pow_big(args.base, i, args.modulus))
                     * unwrap(mod_pow_big(args.base, args.exponent - i, args.modulus)))
                  % args.modulus

C9_Witness ==
    /\ ModPowCalled
    /\ args.exponent = MaxExp
    /\ args.modulus >= 2
    /\ args.base > args.modulus
    /\ is_some(ret)
    /\ unwrap(ret) > 1

(***************************************************************************)
(* C10. Round trip: for a coprime to m and every exponent e, whenever both *)
(* sides are defined, mod_pow_big(mod_pow_big(a, e, m), -1, m) equals      *)
(* mod_pow_big(a, -e, m).                                                  *)
(***************************************************************************)
RoundTripLhs == mod_pow_big(unwrap(ret), -1, args.modulus)

RoundTripRhs == mod_pow_big(args.base, -args.exponent, args.modulus)

C10_RoundTrip ==
    (ModPowCalled /\ RefGcd(args.base, args.modulus) = 1 /\ is_some(ret)) =>
        ((is_some(RoundTripLhs) /\ is_some(RoundTripRhs)) => RoundTripLhs = RoundTripRhs)

C10_Witness ==
    /\ ModPowCalled
    /\ RefGcd(args.base, args.modulus) = 1
    /\ args.exponent > 1
    /\ is_some(ret)
    /\ is_some(RoundTripLhs)
    /\ RoundTripLhs = RoundTripRhs
    /\ unwrap(RoundTripLhs) > 1
    /\ unwrap(RoundTripLhs) # unwrap(ret)

(***************************************************************************)
(* C11. gcd_big(a, b) is the greatest common divisor for all a, b >= 0:    *)
(* gcd_big(a,0) = a, gcd_big(0,b) = b, gcd_big(0,0) = 0, the result        *)
(* divides both arguments, every common divisor divides it, and            *)
(* gcd_big(a,b) = gcd_big(b,a).                                            *)
(***************************************************************************)
GcdCalled == fn = "gcd_big"

C11_Gcd ==
    GcdCalled =>
        /\ ret = RefGcd(args.a, args.b)
        /\ args.b = 0 => ret = args.a
        /\ args.a = 0 => ret = args.b
        /\ Divides(ret, args.a)
        /\ Divides(ret, args.b)
        /\ \A d \in 1 .. (args.a + args.b) :
              (Divides(d, args.a) /\ Divides(d, args.b)) => Divides(d, ret)
        /\ ret = gcd_big(args.b, args.a)

C11_Witness ==
    /\ GcdCalled
    /\ args.a = 12
    /\ args.b = 18
    /\ ret = 6

(***************************************************************************)
(* C12. Miller-Rabin has no false negatives: for every prime p, every      *)
(* round count k >= 1 and every choice of the witnesses drawn,             *)
(* is_prime_miller_rabin(p, k) returns true.                               *)
(***************************************************************************)
MillerRabinCalled == fn = "is_prime_miller_rabin"

RefIsPrime(n) == n >= 2 /\ \A d \in 2 .. (n - 1) : n % d # 0

C12_NoFalseNegative ==
    (MillerRabinCalled /\ RefIsPrime(args.n) /\ args.k >= 1) => ret = TRUE

C12_Witness ==
    /\ MillerRabinCalled
    /\ args.n = 17
    /\ args.k = MaxRounds
    /\ args.ws[1] = 3
    /\ ret = TRUE

(***************************************************************************)
(* C13. No-subscriber drop: a tx.send performed while the channel has no   *)
(* receiver does not block the producer and does not stop the run; the     *)
(* event is not stored, and no subscriber, whenever it subscribes, is      *)
(* delivered it.                                                           *)
(***************************************************************************)
Sends == Len(log') > Len(log)

Delivered(r) == {out[r][j][2] : j \in {i \in DOMAIN out[r] : out[r][i][1] = "data"}}

C13_NoSubscriberDrop ==
    [][/\ (Sends /\ receiver_count = 0) =>
             /\ pc' \notin {pc, "panicked"}
             /\ Len(log') \in dropped'
             /\ buffer' = buffer
             /\ tail_pos' = tail_pos
       /\ \A r \in Subscribers : \A i \in dropped' : log'[i] \notin Delivered(r)'
      ]_vars

C13_Witness ==
    /\ Done
    /\ 1 \in dropped
    /\ \E r \in Subscribers : rx[r] # Unset /\ Len(out[r]) >= 2

(***************************************************************************)
(* C14. Lag semantics. As stated: with capacity 100, a receiver that       *)
(* stalls while more than 100 events are published gets a lag notice on    *)
(* its next receive. As the channel behaves: the buffer retains 128        *)
(* events (the capacity rounded up to a power of two); the producer is     *)
(* never held back; a receiver more than 128 events behind gets one lag    *)
(* notice whose count is exactly the number of events it lost and stands   *)
(* then at the oldest event retained; every other receive yields the       *)
(* event at the receiver's position, so the events after a lag notice      *)
(* arrive in order and none twice.                                         *)
(***************************************************************************)
Receives(r) == rx[r] # Unset /\ rx'[r] # Unset /\ out'[r] # out[r]

Behind(r) == tail_pos - rx[r]

C14_LagSemantics_Original ==
    [][\A r \in Subscribers :
          (Receives(r) /\ Behind(r) > Capacity) =>
              /\ out'[r] = Append(out[r], <<"lagged", Behind(r) - Capacity>>)
              /\ rx'[r] = tail_pos - Capacity
      ]_vars

C14_LagSemantics ==
    [][\A r \in Subscribers :
          Receives(r) =>
              IF Behind(r) > next_power_of_two(Capacity)
              THEN /\ out'[r] = Append(out[r],
                                  <<"lagged", Behind(r) - next_power_of_two(Capacity)>>)
                   /\ rx'[r] = tail_pos - next_power_of_two(Capacity)
              ELSE /\ out'[r] = Append(out[r], <<"data", <<"event", rx[r]>>>>)
                   /\ rx'[r] = rx[r] + 1
      ]_vars

C14_Witness ==
    /\ pc = "burst"
    /\ Len(out[1]) = 2
    /\ out[1][1] = <<"lagged", MaxOver>>
    /\ out[1][2] = <<"data", <<"event", MaxOver>>>>

(***************************************************************************)
(* C15. A subscriber created by logs_handler at any time receives the      *)
(* events published after its subscription, in publication order and       *)
(* without duplicates, and no event published before its subscription, as  *)
(* long as it is not more than the buffer behind: what its stream has      *)
(* yielded is at every moment the run of published events from the one     *)
(* that followed its subscription up to its position, and the events it    *)
(* has still to receive are retained.                                      *)
(***************************************************************************)
\* The events the channel accepted (those not dropped), in publication order.
Published ==
    LET upto[i \in 0 .. Len(log)] ==
            IF i = 0 THEN <<>>
            ELSE IF i \in dropped THEN upto[i - 1]
            ELSE Append(upto[i - 1], log[i])
    IN upto[Len(log)]

\* Position of the channel at which stream r was opened, given what it has yielded.
Since(r) == rx[r] - Len(out[r])

C15_SubscriberReceivesAll ==
    [][LET published == Published'
       IN  /\ tail_pos' = Len(published)
           /\ \A r \in Subscribers :
                 rx'[r] # Unset =>
                     /\ rx[r] = Unset => (rx'[r] = tail_pos /\ out'[r] = <<>>)
                     /\ rx[r] # Unset => Since(r)' = Since(r)
                     /\ Since(r)' >= 0
                     /\ \A j \in DOMAIN out'[r] :
                           out'[r][j] = <<"data", published[Since(r)' + j]>>
                     /\ oldest_pos' <= rx'[r]
                     /\ rx'[r] <= tail_pos'
      ]_vars

C15_Witness ==
    /\ Done
    /\ \E r \in Subscribers :
          /\ rx[r] # Unset
          /\ Since(r) = 2
          /\ Len(out[r]) = tail_pos - 2
          /\ Len(out[r]) >= 3

(***************************************************************************)
(* C16. startRun returns immediately: every invocation of start_handler    *)
(* returns ACCEPTED without waiting, whether or not a subscriber is        *)
(* present: the step start_handler takes after the request is its return.  *)
(***************************************************************************)
C16_ReturnsImmediately ==
    [][(handler = "poll" /\ handler' # "poll") => handler' = "accepted"]_vars

(***************************************************************************)
(* C17. The start barrier prevents a run's events from being dropped:      *)
(* under every interleaving of subscriptions and disconnections with the   *)
(* run, each event of the run is sent while at least one subscriber is     *)
(* present.                                                                *)
(***************************************************************************)
C17_NoEventToZeroReceivers ==
    [][Sends => receiver_count >= 1]_vars

(***************************************************************************)
(* C18. The proof does not reveal the secret: no event delivered to a      *)
(* subscriber carries the secret witness (alpha, beta) or the blinding     *)
(* witness (alpha_t, beta_t).                                              *)
(***************************************************************************)
C18_SecretNotDelivered ==
    \A r \in Subscribers :
        /\ <<"secret_key", secret_key.alpha, secret_key.beta>> \notin Delivered(r)
        /\ <<"keyt", keyt.alpha, keyt.beta>> \notin Delivered(r)

(***************************************************************************)
(* C19. Start gating: start_proof is spawned only by start_handler having  *)
(* observed receiver_count >= 1; with receiver_count = 0 the handler goes  *)
(* to sleep and polls again, no run is started, and as long as no run is   *)
(* started no event is published.                                          *)
(***************************************************************************)
C19_StartGating ==
    [][/\ (pc = "idle" /\ pc' # "idle") =>
             (handler = "poll" /\ receiver_count >= 1 /\ pc' = "start_proof")
       /\ (handler = "poll" /\ handler' # "poll" /\ receiver_count = 0) =>
             (handler' = "sleep" /\ pc' = "idle")
       /\ (handler = "sleep" /\ handler' # "sleep") => handler' = "poll"
       /\ pc' = "idle" => (log' = <<>> /\ tail_pos' = 0)
      ]_vars

C19_Witness ==
    /\ handler = "sleep"
    /\ receiver_count = 0
    /\ pc = "idle"
    /\ log = <<>>

(***************************************************************************)
(* C20. Verdict mapping: a completed run has published exactly one         *)
(* terminal event, as its last event: Verified iff u_z = (u_t * u^c) mod q,*)
(* Rejected iff they differ, the failure message iff mod_pow_big(u, c, q)  *)
(* returns none.                                                           *)
(***************************************************************************)
Terminal(msg) == msg[1] \in {"verified", "rejected", "failed"}

Expected == (ut * RefPowMod(u, c, Q)) % Q

C20_VerdictMapping ==
    /\ Done =>
          /\ Cardinality({i \in DOMAIN log : Terminal(log[i])}) = 1
          /\ Terminal(log[Len(log)])
          /\ (Verdict = "failed") <=> ~is_some(mod_pow_big(u, c, Q))
          /\ (Verdict = "verified") <=> (is_some(mod_pow_big(u, c, Q)) /\ uz = Expected)
          /\ (Verdict = "rejected") <=> (is_some(mod_pow_big(u, c, Q)) /\ uz # Expected)
    /\ ~Done => \A i \in DOMAIN log : ~Terminal(log[i])

C20_Witness ==
    /\ Done
    /\ Verdict = "rejected"
    /\ uz # Expected
    /\ Len(log) = 10

(***************************************************************************)
(* C21. Step order: in every run the steps and their events occur in the   *)
(* fixed order secret witness, commitment u, publish, blinding witness,    *)
(* commitment u_t, publish, challenge, publish, response, publish, verify, *)
(* publish of the terminal verdict: the challenge event comes after the    *)
(* event carrying u and u_t and before the response event, and the         *)
(* verdict is last.                                                        *)
(***************************************************************************)
StepOrder ==
    <<"rules", "commitments", "secret_key", "keyt", "challenge", "response",
      "uz", "uc", "utuc">>

Sent(n) == Len(log) >= n

C21_StepOrder ==
    /\ \A i \in DOMAIN log :
          \/ i <= Len(StepOrder) /\ log[i][1] = StepOrder[i]
          \/ i = Len(StepOrder) + 1 /\ log[i][1] \in {"verified", "rejected"}
          \/ i = 8 /\ log[i][1] = "failed" /\ Len(log) = 8
    /\ (secret_key # NoKey /\ u # Unset) <=> Sent(1)
    /\ (keyt # NoKey /\ ut # Unset) <=> Sent(2)
    /\ c # Unset <=> Sent(5)
    /\ keyz # NoKey <=> Sent(6)
    /\ uz # Unset <=> Sent(7)
    /\ utuc # Unset <=> Sent(9)
    /\ Done <=> (Sent(10) \/ (Sent(8) /\ log[8][1] = "failed"))
    /\ Sent(2) => log[2] = <<"commitments", u, ut>>
    /\ Sent(5) => log[5] = <<"challenge", c>>
    /\ Sent(6) => log[6] = <<"response", keyz.alpha, keyz.beta>>
    /\ Sent(7) => log[7] = <<"uz", uz>>

C21_Witness ==
    /\ Done
    /\ Len(log) = 10
    /\ log[2][1] = "commitments"
    /\ log[5][1] = "challenge"
    /\ log[6][1] = "response"
    /\ log[10][1] = "verified"

(***************************************************************************)
(* C22. Challenge binding: the challenge lies in [0,q), is chosen only     *)
(* after both commitments are fixed, and is not determined before u_t is   *)
(* committed: when the commitments are fixed and the challenge is about to *)
(* be issued, more than one value of [0,q) can still become the challenge. *)
(***************************************************************************)
\* The values get_challenge can return from the present state.
PossibleChallenges ==
    {v \in random_biguint_mod(Q) : ENABLED (GetChallenge /\ c' = v)}

C22_ChallengeBinding ==
    /\ c # Unset => (c \in random_biguint_mod(Q) /\ u # Unset /\ ut # Unset)
    /\ pc = "get_challenge" => Cardinality(PossibleChallenges) >= 2

(***************************************************************************)
(* C25. is_prime_miller_rabin(n, k) follows the reference Miller-Rabin     *)
(* test for every choice of witnesses: n <= 1 gives false, n in {2,3}      *)
(* true, even n false; for odd n >= 5 with n-1 = 2^s * t, t odd, it        *)
(* returns false exactly when some drawn witness a has a^t mod n not in    *)
(* {1, n-1} and none of the next s-1 squarings equal to n-1; hence false   *)
(* only for composite n. As stated, each witness is drawn from [2, n-2];   *)
(* as the code draws, from [2, n-3].                                       *)
(***************************************************************************)
\* n - 1 = 2^RefS(n) * RefT(n) with RefT(n) odd: RefT(n) is the largest odd
\* divisor of n - 1, RefS(n) the number of powers of two above 1 dividing it.
RefT(n) ==
    CHOOSE t \in 1 .. (n - 1) :
        /\ t % 2 = 1
        /\ Divides(t, n - 1)
        /\ \A t2 \in 1 .. (n - 1) : (t2 % 2 = 1 /\ Divides(t2, n - 1)) => t2 <= t

RefS(n) ==
    Cardinality({d \in 2 .. (n - 1) :
                    /\ Divides(d, n - 1)
                    /\ \A e \in 2 .. d : Divides(e, d) => e % 2 = 0})

RefRoundPasses(a, n) ==
    \/ RefPowMod(a, RefT(n), n) \in {1, n - 1}
    \/ \E j \in 1 .. (RefS(n) - 1) : RefPowMod(a, RefT(n) * (2 ^ j), n) = n - 1

OddFromFive(n) == n >= 5 /\ n % 2 = 1

RefMillerRabin ==
    /\ args.n <= 1 => ret = FALSE
    /\ args.n \in {2, 3} => ret = TRUE
    /\ (args.n > 3 /\ args.n % 2 = 0) => ret = FALSE
    /\ OddFromFive(args.n) =>
          (ret = FALSE <=> \E i \in 1 .. args.k : ~RefRoundPasses(args.ws[i], args.n))
    /\ ret = FALSE => ~RefIsPrime(args.n)

\* The values a witness of the call can take (every round draws alike).
Drawn == {ws[1] : ws \in mr_draws(args.n, 1)}

C25_MillerRabinReference_Original ==
    MillerRabinCalled =>
        /\ RefMillerRabin
        /\ OddFromFive(args.n) =>
              /\ Drawn = 2 .. (args.n - 2)
              /\ \A i \in 1 .. args.k : args.ws[i] \in Drawn

C25_MillerRabinReference ==
    MillerRabinCalled =>
        /\ RefMillerRabin
        /\ OddFromFive(args.n) =>
              /\ Drawn = 2 .. (args.n - 3)
              /\ \A i \in 1 .. args.k : args.ws[i] \in Drawn

C25_Witness ==
    /\ MillerRabinCalled
    /\ args.n = 21
    /\ args.k = 1
    /\ args.ws[1] = 8
    /\ ret = FALSE

(***************************************************************************)
(* C26. Range invariant: in every reachable state of every run the group   *)
(* parameters are q = 11, g = 2, h = 3, and every value the run holds      *)
(* lies in [0,q): the secret witness, the blinding witness, the response   *)
(* ((alpha_t + alpha*c) mod q, (beta_t + beta*c) mod q), the challenge     *)
(* and the commitments u, u_t, u_z.                                        *)
(***************************************************************************)
InRange(v) == v \in 0 .. (Q - 1)

KeyInRange(key) == InRange(key.alpha) /\ InRange(key.beta)

C26_RangeInvariant ==
    /\ Q = 11 /\ G = 2 /\ H = 3
    /\ Sent(1) => log[1] = <<"rules", 11, 2, 3>>
    /\ secret_key # NoKey => KeyInRange(secret_key)
    /\ keyt # NoKey => KeyInRange(keyt)
    /\ keyz # NoKey =>
          /\ KeyInRange(keyz)
          /\ keyz.alpha = (keyt.alpha + secret_key.alpha * c) % Q
          /\ keyz.beta = (keyt.beta + secret_key.beta * c) % Q
    /\ c # Unset => InRange(c)
    /\ u # Unset => InRange(u)
    /\ ut # Unset => InRange(ut)
    /\ uz # Unset => InRange(uz)

C26_Witness ==
    /\ Done
    /\ secret_key = Key(10, 10)
    /\ keyt = Key(10, 10)
    /\ keyz = Key(6, 6)
    /\ InRange(uz)

(***************************************************************************)
(* C27. No numeric failure is reachable in a run: with the shipped q = 11  *)
(* and non-negative exponents and challenge, every mod_pow_big call of     *)
(* compute_u and send_proof returns Some, so the unwraps of compute_u do   *)
(* not panic, the failure message is never published, and every run ends   *)
(* with Verified or Rejected.                                              *)
(***************************************************************************)
C27_NoNumericFailure ==
    /\ pc # "panicked"
    /\ \A i \in DOMAIN log : log[i][1] # "failed"
    /\ Done => Verdict \in {"verified", "rejected"}
    /\ secret_key # NoKey => ~compute_u_panics(secret_key, G, H, Q)
    /\ keyt # NoKey => ~compute_u_panics(keyt, G, H, Q)
    /\ keyz # NoKey => ~compute_u_panics(keyz, G, H, Q)
    /\ c # Unset => is_some(mod_pow_big(u, c, Q))

C27_Witness ==
    /\ Done
    /\ secret_key = Key(0, 0)
    /\ keyt = Key(0, 10)
    /\ uc = 1
    /\ Verdict = "verified"

(***************************************************************************)
(* C28. modular_inverse_euclidean is total: for every a >= 0 and every     *)
(* m >= 0, m = 0 included, the call returns none or Some(value) and does   *)
(* not fault.                                                              *)
(***************************************************************************)
C28_InverseTotal ==
    InverseCalled => ret[1] \in {"None", "Some"}

(***************************************************************************)
(* C24. At most one run is live at a time: when startRun is triggered      *)
(* while an earlier run has not published its terminal verdict, the two    *)
(* runs do not overlap, so their events are not interleaved on the shared  *)
(* channel.                                                                *)
(***************************************************************************)
Live(p) == p \notin {"idle", "done", "panicked"}

C24_AtMostOneRunLive == ~(Live(pc) /\ Live(run2.pc))

(***************************************************************************)
(* C23. Unconditional termination: once start_proof has been spawned the   *)
(* run eventually publishes its terminal verdict, under every interleaving *)
(* of subscriptions and disconnections; a publish that fails for want of a *)
(* receiver does not abort the run and does not change the values the      *)
(* later steps compute, which are those the draws determine.               *)
(***************************************************************************)
ValuesFromDraws ==
    /\ u # Unset => u = compute_u(secret_key, G, H, Q)
    /\ ut # Unset => ut = compute_u(keyt, G, H, Q)
    /\ c # Unset => c = C
    /\ keyz # NoKey => keyz = respond(secret_key, keyt, c, Q)
    /\ uz # Unset => uz = compute_u(keyz, G, H, Q)
    /\ uc # Unset => Some(uc) = mod_pow_big(u, c, Q)
    /\ utuc # Unset => utuc = (ut * uc) % Q
    /\ Done =>
          /\ Terminal(log[Len(log)])
          /\ Verdict = "verified" <=> (utuc # Unset /\ uz = utuc)

C23_Termination ==
    /\ []ValuesFromDraws
    /\ Live(pc) ~> Done

C23_Witness ==
    /\ Done
    /\ Len(log) = 10
    /\ {1, 5, 10} \subseteq dropped
    /\ Verdict = "verified"

====
